---- MODULE Spec2Model ----
(***************************************************************************)
(* Account identity and social graph of the COMP3011 API.                  *)
(*                                                                         *)
(* The state is the authors collection (db) and the requests in flight     *)
(* (req).  Every request handler is cut at its awaits on the database:     *)
(* one action per database round trip, with the synchronous code that      *)
(* follows it up to the next await.  Mongoose and the MongoDB driver are   *)
(* modelled by what they do to the collection: save() of a pushed array    *)
(* sends $push and increments __v, save() of an assigned array sends $set  *)
(* guarded by __v, save() of an unmodified document only checks that the   *)
(* document still exists, findByIdAndUpdate runs no save hook.             *)
(***************************************************************************)
EXTENDS Integers, Sequences, FiniteSets

\* ------------------------------------------------------------------ bounds

\* Requests the clients send in one run.
MaxOps == 2

\* The ObjectIds are 1..MaxId: the seeded accounts hold 1 and 2.
MaxId == 3

\* The request slots: two requests can be in flight at once.
Reqs == {1, 2}

IdSpace == 1..MaxId

SeedIds == {1, 2}

\* --------------------------------------------------------------- constants

\* password: { minLength: 6 } and the controller's length >= 6
MinPasswordLen == 6

\* -------------------------------------------------------------- id strings

\* A 24 hex digit string naming an ObjectId: canon is TRUE when the string is
\* the lower-case form ObjectId.toString() prints, FALSE when it spells the
\* same digits with upper-case letters.
IdStrings == [oid : IdSpace, canon : BOOLEAN]

NoParam == [oid |-> 0, canon |-> TRUE]

\* ObjectId.prototype.toString(): always the lower-case hex string.
ToString(oid) == [oid |-> oid, canon |-> TRUE]

\* Mongoose's cast of a string to an ObjectId: hex digits in either case.
CastObjectId(s) == s.oid

\* ------------------------------------------------------------------ emails

\* An email is a sequence of characters; only the letter case and the
\* surrounding blanks matter here.
Lower(ch) == CASE ch = "A" -> "a"
               [] ch = "B" -> "b"
               [] ch = "C" -> "c"
               [] OTHER -> ch

RECURSIVE TrimLeft(_)
TrimLeft(s) == IF s # <<>> /\ Head(s) = " " THEN TrimLeft(Tail(s)) ELSE s

RECURSIVE TrimRight(_)
TrimRight(s) == IF s # <<>> /\ s[Len(s)] = " "
                  THEN TrimRight(SubSeq(s, 1, Len(s) - 1))
                  ELSE s

Trim(s) == TrimRight(TrimLeft(s))

LowerCase(s) == [i \in 1..Len(s) |-> Lower(s[i])]

\* The schema without lowercase: true.
EmailSetterTrimOnly(s) == Trim(s)

\* email: { trim: true, lowercase: true }
EmailSetter(s) == LowerCase(Trim(s))

\* --------------------------------------------------------------- passwords

SeedPw == <<"s", "e", "e", "d", "p", "w">>
LongPw == <<"s", "e", "c", "r", "e", "t">>
ShortPw == <<"p", "w">>

\* bcrypt.hash(p, 10): the stored string is the hash of p, not p.
BcryptHash(p) == [hashed |-> TRUE, text |-> p]

\* A string stored as it was sent.
Plain(p) == [hashed |-> FALSE, text |-> p]

\* ------------------------------------------------------------------ tokens

JwtSecret == "secret"

\* The HMAC of a payload under a key: it names both.
Sign(sub, key) == <<sub, key>>

NoToken == [sub |-> 0, sig |-> Sign(0, "none")]

\* jwt.sign({ _id }, secret)
GenerateAuthToken(oid) == [sub |-> oid, sig |-> Sign(oid, JwtSecret)]

\* jwt.decode in the place of jwt.verify: the signature is not looked at.
JwtDecodeOnly(tok) == TRUE

\* jwt.verify(token, secret): throws unless the signature is the one the
\* secret gives for this payload.
JwtVerify(tok) == tok.sig = Sign(tok.sub, JwtSecret)

\* A token signed with another key, and the token of account 1 with its
\* payload rewritten to name account 2.
ForgedToken == [sub |-> 1, sig |-> Sign(1, "forged")]

TamperedToken == [sub |-> 2, sig |-> Sign(1, JwtSecret)]

\* -------------------------------------------------------------------- state

\* db: the authors collection, _id -> document.  req: the request slots.
\* ops: requests received.  everIds: the ObjectIds generated or inserted so
\* far.  issued: the accounts a token was signed for.  deleted: the accounts
\* whose DELETE was answered 204.
VARIABLES db, req, ops, everIds, issued, deleted

vars == <<db, req, ops, everIds, issued, deleted>>

NoBody == [name |-> "", email |-> <<>>, password |-> <<>>, id |-> 0,
           following |-> <<>>, followers |-> <<>>]

IdleReq == [kind |-> "none", pc |-> "idle", hdr |-> NoToken, qry |-> NoToken,
            tok |-> NoToken, user |-> 0,
            param |-> NoParam, body |-> NoBody,
            following |-> <<>>, uv |-> 0, dirty |-> FALSE,
            tfollowers |-> <<>>, tv |-> 0, tdirty |-> FALSE,
            raw |-> <<>>, status |-> 0, count |-> 0, res |-> {}]

\* new Author(doc) saved by the seed script: hashed password, empty arrays.
SeedDoc(i) == [name |-> "n1",
               email |-> IF i = 1 THEN <<"a">> ELSE <<"b">>,
               password |-> BcryptHash(SeedPw),
               following |-> <<>>, followers |-> <<>>, v |-> 0]

\* The service after the seed script ran and the seeded owners logged in;
\* a third account either never existed, or signed up and deleted itself.
Init ==
    /\ db = [i \in SeedIds |-> SeedDoc(i)]
    /\ req = [r \in Reqs |-> IdleReq]
    /\ ops = 0
    /\ \E gone \in BOOLEAN :
          /\ everIds = (IF gone THEN IdSpace ELSE SeedIds)
          /\ issued = everIds
          /\ deleted = everIds \ SeedIds

Exists(oid) == oid \in DOMAIN db

\* The tokens a client can send: none, one the service issued, one signed
\* with another key, or an issued one with its payload changed.
ClientTokens ==
    {NoToken} \cup {GenerateAuthToken(i) : i \in issued}
              \cup {ForgedToken, TamperedToken}

NoAuth == [hdr |-> NoToken, qry |-> NoToken]

\* How a request carries its token: in the Authorization header (any
\* token), in the token query parameter (a seeded account's), or one in
\* each.
ClientAuth ==
    {[hdr |-> t, qry |-> NoToken] : t \in ClientTokens}
    \cup {[hdr |-> NoToken, qry |-> GenerateAuthToken(i)] : i \in SeedIds}
    \cup {[hdr |-> GenerateAuthToken(1), qry |-> GenerateAuthToken(2)],
          [hdr |-> GenerateAuthToken(1), qry |-> ForgedToken],
          [hdr |-> ForgedToken, qry |-> GenerateAuthToken(1)]}

\* req.query.token || req.headers.authorization?.split(' ')[1]
TokenOf(a) == IF a.qry # NoToken THEN a.qry ELSE a.hdr

\* doc.toObject(): the stored fields and the _id.
ToObject(oid, doc) ==
    [id |-> oid, name |-> doc.name, email |-> doc.email,
     password |-> doc.password, following |-> doc.following,
     followers |-> doc.followers, v |-> doc.v]

\* The document serialised as Mongoose does without the schema's toJSON.
ToJSONDefault(obj) == obj

\* authorSchema.methods.toJSON: delete author.password
ToJSON(obj) == [f \in DOMAIN obj \ {"password"} |-> obj[f]]

\* res.json({ author }) and res.json({ authors }): JSON.stringify calls
\* toJSON on every document in the answer.
Serialise(ids, coll) == {ToJSON(ToObject(i, coll[i])) : i \in ids}

\* The answer to a request before its handler's first await: a is how the
\* request carried its token.
Respond(r, kind, a, user, param, body, status, count) ==
    req' = [req EXCEPT ![r] =
              [IdleReq EXCEPT !.kind = kind, !.pc = "done",
                              !.hdr = a.hdr, !.qry = a.qry, !.tok = TokenOf(a),
                              !.user = user, !.param = param, !.body = body,
                              !.status = status, !.count = count]]

\* An answer that carries account representations.
RespondAuthors(r, kind, a, user, param, body, status, authors) ==
    req' = [req EXCEPT ![r] =
              [IdleReq EXCEPT !.kind = kind, !.pc = "done",
                              !.hdr = a.hdr, !.qry = a.qry, !.tok = TokenOf(a),
                              !.user = user, !.param = param, !.body = body,
                              !.status = status, !.res = authors]]

\* The answer of a handler that has awaited the database.
Finish(r, status, count) ==
    req' = [req EXCEPT ![r] =
              [IdleReq EXCEPT !.kind = req[r].kind, !.pc = "done",
                              !.tok = req[r].tok, !.user = req[r].user,
                              !.param = req[r].param, !.body = req[r].body,
                              !.raw = req[r].raw,
                              !.status = status, !.count = count]]

FinishAuthors(r, status, authors) ==
    req' = [req EXCEPT ![r] =
              [IdleReq EXCEPT !.kind = req[r].kind, !.pc = "done",
                              !.tok = req[r].tok, !.user = req[r].user,
                              !.param = req[r].param, !.body = req[r].body,
                              !.raw = req[r].raw,
                              !.status = status, !.res = authors]]

\* An answer leaves the server as soon as it is written: nothing else runs
\* while a slot holds one.
NoAnswerPending == \A q \in Reqs : req[q].pc # "done"

\* A new request takes the first free slot.
CanStart(r) ==
    /\ NoAnswerPending
    /\ req[r].pc = "idle"
    /\ \A q \in Reqs : q < r => req[q].pc # "idle"
    /\ ops < MaxOps

\* middleware auth: the id of the account the token resolves to, 0 for the
\* 401 answer.
Authenticate(tok) ==
    IF tok = NoToken THEN 0
    ELSE IF ~JwtVerify(tok) THEN 0
    ELSE IF ~Exists(tok.sub) THEN 0
    ELSE tok.sub

\* ------------------------------------------------------------------ profile

\* The 401 answer of the middleware: the handler never runs.
Unauthorized(r, kind, a) ==
    Respond(r, kind, a, 0, NoParam, NoBody, 401, 0)

\* A request that passed the middleware: req.user is the document loaded by
\* Author.findById(decoded._id).
Enter(r, kind, tok, u, p, b, pc) ==
    req' = [req EXCEPT ![r] =
              [IdleReq EXCEPT !.kind = kind, !.pc = pc, !.tok = tok,
                              !.user = u, !.param = p, !.body = b,
                              !.following = db[u].following,
                              !.uv = db[u].v]]

\* GET /authors/profile
GetProfile(r) ==
    /\ CanStart(r)
    /\ \E a \in ClientAuth :
        /\ ops' = ops + 1
        /\ LET tok == TokenOf(a)
               u == Authenticate(tok) IN
           IF u = 0 THEN Unauthorized(r, "profile", a)
           ELSE RespondAuthors(r, "profile", a, u, NoParam, NoBody, 200,
                               Serialise({u}, db))
        /\ UNCHANGED <<db, everIds, issued, deleted>>

\* GET /authors: public, every document of the collection.
IndexAuthors(r) ==
    /\ CanStart(r)
    /\ ops' = ops + 1
    /\ RespondAuthors(r, "index", NoAuth, 0, NoParam, NoBody, 200,
                      Serialise(DOMAIN db, db))
    /\ UNCHANGED <<db, everIds, issued, deleted>>

\* GET /authors/:id: public, 404 when findById finds nothing.
ShowAuthor(r) ==
    /\ CanStart(r)
    /\ \E p \in IdStrings :
        /\ ops' = ops + 1
        /\ IF Exists(CastObjectId(p))
             THEN RespondAuthors(r, "show", NoAuth, 0, p, NoBody, 200,
                                 Serialise({CastObjectId(p)}, db))
             ELSE Respond(r, "show", NoAuth, 0, p, NoBody, 404, 0)
        /\ UNCHANGED <<db, everIds, issued, deleted>>

\* ------------------------------------------------------------ follow graph

\* req.user._id.toString() === req.params.id
IsSelf(u, p) == ToString(u) = p

\* this.following.some((f) => f.toString() === id)
AlreadyFollowing(following, p) ==
    \E i \in 1..Len(following) : ToString(following[i]) = p

\* target.followers.some((f) => f.toString() === this._id.toString())
HasFollower(followers, u) ==
    \E i \in 1..Len(followers) : ToString(followers[i]) = ToString(u)

\* this.following.filter((f) => f.toString() !== id)
FilterFollowing(following, p) ==
    SelectSeq(following, LAMBDA f : ToString(f) # p)

\* target.followers.filter((f) => f.toString() !== this._id.toString())
FilterFollowers(followers, u) ==
    SelectSeq(followers, LAMBDA f : ToString(f) # ToString(u))

\* save() with a pre('save') hook that hashes on every save: the stored
\* string ("$" and what follows) is hashed as if it were a plaintext.
PushUpdateRehash(oid, path, val) ==
    db' = [db EXCEPT ![oid] =
             IF path = "following"
               THEN [@ EXCEPT !.following = Append(@, val), !.v = @ + 1,
                              !.password = BcryptHash(<<"$">> \o @.text)]
               ELSE [@ EXCEPT !.followers = Append(@, val), !.v = @ + 1,
                              !.password = BcryptHash(<<"$">> \o @.text)]]

\* save() after push: { $push: { path: id }, $inc: { __v: 1 } }, no __v in
\* the filter.  pre('save') finds the password of a loaded document not
\* modified and leaves it; only the pushed path is sent.
PushUpdate(oid, path, val) ==
    db' = [db EXCEPT ![oid] =
             IF path = "following"
               THEN [@ EXCEPT !.following = Append(@, val), !.v = @ + 1]
               ELSE [@ EXCEPT !.followers = Append(@, val), !.v = @ + 1]]

\* save() of an assigned array without the version in its filter.
VersionIgnored(oid, loaded) == TRUE

\* The filter of save() after assigning an array: { _id, __v: loaded };
\* no document matches when another save has incremented __v since the load.
VersionMatches(oid, loaded) == db[oid].v = loaded

\* save() after assigning the array: { $set: { path: array }, $inc: { __v: 1 } }
\* on the document whose __v is still the loaded one.
SetUpdate(oid, path, arr) ==
    db' = [db EXCEPT ![oid] =
             IF path = "following"
               THEN [@ EXCEPT !.following = arr, !.v = @ + 1]
               ELSE [@ EXCEPT !.followers = arr, !.v = @ + 1]]

\* POST /authors/:id/follow: the middleware and the self check.
FollowStart(r) ==
    /\ CanStart(r)
    /\ \E a \in ClientAuth, p \in IdStrings :
        /\ ops' = ops + 1
        /\ LET tok == TokenOf(a)
               u == Authenticate(tok) IN
           IF u = 0 THEN Unauthorized(r, "follow", a)
           ELSE IF IsSelf(u, p)
             THEN Respond(r, "follow", a, u, p, NoBody, 400, 0)
             ELSE Enter(r, "follow", tok, u, p, NoBody, "findTarget")
        /\ UNCHANGED <<db, everIds, issued, deleted>>

\* Author.findById(req.params.id), then follow() up to this.save().
FollowFindTarget(r) ==
    /\ req[r].kind = "follow" /\ req[r].pc = "findTarget"
    /\ NoAnswerPending
    /\ LET p == req[r].param IN
       IF ~Exists(CastObjectId(p)) THEN Finish(r, 404, 0)
       ELSE IF AlreadyFollowing(req[r].following, p)
         THEN Finish(r, 200, Len(req[r].following))
         ELSE req' = [req EXCEPT ![r].following = Append(@, CastObjectId(p)),
                                 ![r].pc = "saveUser"]
    /\ UNCHANGED <<db, ops, everIds, issued, deleted>>

\* follow() without its first save: the actor's document is not written.
FollowSaveUserSkipped(r) ==
    /\ req[r].kind = "follow" /\ req[r].pc = "saveUser"
    /\ NoAnswerPending
    /\ req' = [req EXCEPT ![r].pc = "findTarget2"]
    /\ UNCHANGED <<db, ops, everIds, issued, deleted>>

\* await this.save() in follow().
FollowSaveUser(r) ==
    /\ req[r].kind = "follow" /\ req[r].pc = "saveUser"
    /\ NoAnswerPending
    /\ IF Exists(req[r].user)
         THEN /\ PushUpdate(req[r].user, "following", CastObjectId(req[r].param))
              /\ req' = [req EXCEPT ![r].uv = @ + 1, ![r].pc = "findTarget2"]
         ELSE /\ Finish(r, 400, 0)
              /\ UNCHANGED db
    /\ UNCHANGED <<ops, everIds, issued, deleted>>

\* Author.findById(userId) in follow(), then the check of target.followers.
FollowFindTarget2(r) ==
    /\ req[r].kind = "follow" /\ req[r].pc = "findTarget2"
    /\ NoAnswerPending
    /\ LET t == CastObjectId(req[r].param) IN
       IF Exists(t) /\ ~HasFollower(db[t].followers, req[r].user)
         THEN req' = [req EXCEPT ![r].tfollowers = Append(db[t].followers, req[r].user),
                                 ![r].tv = db[t].v,
                                 ![r].pc = "saveTarget"]
         ELSE Finish(r, 200, Len(req[r].following))
    /\ UNCHANGED <<db, ops, everIds, issued, deleted>>

\* await target.save() in follow(), then the 200 answer.
FollowSaveTarget(r) ==
    /\ req[r].kind = "follow" /\ req[r].pc = "saveTarget"
    /\ NoAnswerPending
    /\ LET t == CastObjectId(req[r].param) IN
       IF Exists(t)
         THEN /\ PushUpdate(t, "followers", req[r].user)
              /\ Finish(r, 200, Len(req[r].following))
         ELSE /\ Finish(r, 400, 0)
              /\ UNCHANGED db
    /\ UNCHANGED <<ops, everIds, issued, deleted>>

\* POST /authors/:id/unfollow: the middleware and the self check.
UnfollowStart(r) ==
    /\ CanStart(r)
    /\ \E a \in ClientAuth, p \in IdStrings :
        /\ ops' = ops + 1
        /\ LET tok == TokenOf(a)
               u == Authenticate(tok) IN
           IF u = 0 THEN Unauthorized(r, "unfollow", a)
           ELSE IF IsSelf(u, p)
             THEN Respond(r, "unfollow", a, u, p, NoBody, 400, 0)
             ELSE Enter(r, "unfollow", tok, u, p, NoBody, "findTarget")
        /\ UNCHANGED <<db, everIds, issued, deleted>>

\* Author.findById(req.params.id), then unfollow() up to this.save(): the
\* assignment marks the path modified only when the array changed.
UnfollowFindTarget(r) ==
    /\ req[r].kind = "unfollow" /\ req[r].pc = "findTarget"
    /\ NoAnswerPending
    /\ LET p == req[r].param
           kept == FilterFollowing(req[r].following, p) IN
       IF ~Exists(CastObjectId(p)) THEN Finish(r, 404, 0)
       ELSE req' = [req EXCEPT ![r].following = kept,
                               ![r].dirty = (kept # req[r].following),
                               ![r].pc = "saveUser"]
    /\ UNCHANGED <<db, ops, everIds, issued, deleted>>

\* await this.save() in unfollow(): VersionError or DocumentNotFoundError
\* when no document matches.
UnfollowSaveUser(r) ==
    /\ req[r].kind = "unfollow" /\ req[r].pc = "saveUser"
    /\ NoAnswerPending
    /\ LET u == req[r].user IN
       IF req[r].dirty
         THEN IF Exists(u) /\ VersionMatches(u, req[r].uv)
                THEN /\ SetUpdate(u, "following", req[r].following)
                     /\ req' = [req EXCEPT ![r].uv = @ + 1,
                                           ![r].pc = "findTarget2"]
                ELSE /\ Finish(r, 400, 0)
                     /\ UNCHANGED db
         ELSE /\ IF Exists(u)
                   THEN req' = [req EXCEPT ![r].pc = "findTarget2"]
                   ELSE Finish(r, 400, 0)
              /\ UNCHANGED db
    /\ UNCHANGED <<ops, everIds, issued, deleted>>

\* Author.findById(userId) in unfollow(), then the filter of target.followers.
UnfollowFindTarget2(r) ==
    /\ req[r].kind = "unfollow" /\ req[r].pc = "findTarget2"
    /\ NoAnswerPending
    /\ LET t == CastObjectId(req[r].param) IN
       IF Exists(t)
         THEN LET kept == FilterFollowers(db[t].followers, req[r].user) IN
              req' = [req EXCEPT ![r].tfollowers = kept,
                                 ![r].tv = db[t].v,
                                 ![r].tdirty = (kept # db[t].followers),
                                 ![r].pc = "saveTarget"]
         ELSE Finish(r, 200, Len(req[r].following))
    /\ UNCHANGED <<db, ops, everIds, issued, deleted>>

\* await target.save() in unfollow(), then the 200 answer.
UnfollowSaveTarget(r) ==
    /\ req[r].kind = "unfollow" /\ req[r].pc = "saveTarget"
    /\ NoAnswerPending
    /\ LET t == CastObjectId(req[r].param) IN
       IF req[r].tdirty
         THEN IF Exists(t) /\ VersionMatches(t, req[r].tv)
                THEN /\ SetUpdate(t, "followers", req[r].tfollowers)
                     /\ Finish(r, 200, Len(req[r].following))
                ELSE /\ Finish(r, 400, 0)
                     /\ UNCHANGED db
         ELSE /\ IF Exists(t)
                   THEN Finish(r, 200, Len(req[r].following))
                   ELSE Finish(r, 400, 0)
              /\ UNCHANGED db
    /\ UNCHANGED <<ops, everIds, issued, deleted>>

\* ------------------------------------------------------- update and delete

\* The owner check left out.
NotOwnerSkipped(u, p) == FALSE

\* req.user._id.toString() !== req.params.id
NotOwner(u, p) == ToString(u) # p

\* What a client sends to PUT /authors/:id: a name or a password ("" and
\* <<>> stand for a field that is not sent), and with them any other key:
\* email, _id, following, followers.
UpdateBodies ==
    {[NoBody EXCEPT !.name = "n2"],
     [NoBody EXCEPT !.password = ShortPw],
     [NoBody EXCEPT !.password = LongPw],
     [NoBody EXCEPT !.name = "n2", !.email = <<"z">>, !.id = 1,
                    !.following = <<2>>, !.followers = <<2>>]}

\* req.body.password && req.body.password.length >= 6
PasswordAccepted(pw) == pw # <<>> /\ Len(pw) >= MinPasswordLen

\* The request body passed to findByIdAndUpdate as it came.
ApplyWholeBody(doc, b) ==
    [doc EXCEPT !.name = IF b.name # "" THEN b.name ELSE @,
                !.email = IF b.email # <<>> THEN EmailSetter(b.email) ELSE @,
                !.password = IF b.password # <<>> THEN Plain(b.password) ELSE @,
                !.following = IF b.following # <<>> THEN b.following ELSE @,
                !.followers = IF b.followers # <<>> THEN b.followers ELSE @]

\* updates holds the whitelisted keys of the body (name stands for the six
\* profile fields) and the password when it is long enough;
\* Author.findByIdAndUpdate(id, updates) writes them as sent: no save hook
\* runs on this path.
ApplyUpdates(doc, b) ==
    [doc EXCEPT !.name = IF b.name # "" THEN b.name ELSE @,
                !.password = IF PasswordAccepted(b.password)
                               THEN Plain(b.password) ELSE @]

\* PUT /authors/:id: the middleware and the owner check.
UpdateStart(r) ==
    /\ CanStart(r)
    /\ \E a \in ClientAuth, p \in IdStrings, b \in UpdateBodies :
        /\ ops' = ops + 1
        /\ LET tok == TokenOf(a)
               u == Authenticate(tok) IN
           IF u = 0 THEN Unauthorized(r, "update", a)
           ELSE IF NotOwner(u, p)
             THEN Respond(r, "update", a, u, p, b, 403, 0)
             ELSE Enter(r, "update", tok, u, p, b, "apply")
        /\ UNCHANGED <<db, everIds, issued, deleted>>

\* await Author.findByIdAndUpdate(...), then 404, or 200 with the updated
\* document (new: true).
UpdateApply(r) ==
    /\ req[r].kind = "update" /\ req[r].pc = "apply"
    /\ NoAnswerPending
    /\ LET t == CastObjectId(req[r].param) IN
       IF Exists(t)
         THEN /\ db' = [db EXCEPT ![t] = ApplyUpdates(@, req[r].body)]
              /\ FinishAuthors(r, 200, Serialise({t}, db'))
         ELSE /\ Finish(r, 404, 0)
              /\ UNCHANGED db
    /\ UNCHANGED <<ops, everIds, issued, deleted>>

\* DELETE /authors/:id: the middleware and the owner check.
DeleteStart(r) ==
    /\ CanStart(r)
    /\ \E a \in ClientAuth, p \in IdStrings :
        /\ ops' = ops + 1
        /\ LET tok == TokenOf(a)
               u == Authenticate(tok) IN
           IF u = 0 THEN Unauthorized(r, "delete", a)
           ELSE IF NotOwner(u, p)
             THEN Respond(r, "delete", a, u, p, NoBody, 403, 0)
             ELSE Enter(r, "delete", tok, u, p, NoBody, "apply")
        /\ UNCHANGED <<db, everIds, issued, deleted>>

\* await Author.findByIdAndDelete(id), then 404 or 204: only the author's
\* own document is removed.
DeleteApply(r) ==
    /\ req[r].kind = "delete" /\ req[r].pc = "apply"
    /\ NoAnswerPending
    /\ LET t == CastObjectId(req[r].param) IN
       IF Exists(t)
         THEN /\ db' = [i \in DOMAIN db \ {t} |-> db[i]]
              /\ deleted' = deleted \cup {t}
              /\ Finish(r, 204, 0)
         ELSE /\ Finish(r, 404, 0)
              /\ UNCHANGED <<db, deleted>>
    /\ UNCHANGED <<ops, everIds, issued>>

\* -------------------------------------------------------- signup and login

\* The bodies a client sends to POST /auth/signup: the three required fields
\* (one of them may be missing, the password may be short), and with them
\* any other path of the schema: _id, following, followers.
PlainSignups ==
    {[NoBody EXCEPT !.name = n, !.email = e, !.password = pw] :
        n \in {"n1"}, e \in {<<"c">>, <<" ", "C">>, <<"A", " ">>},
        pw \in {LongPw}}
    \cup {[NoBody EXCEPT !.name = "", !.email = <<"c">>, !.password = LongPw],
          [NoBody EXCEPT !.name = "n1", !.email = <<>>, !.password = LongPw],
          [NoBody EXCEPT !.name = "n1", !.email = <<"c">>, !.password = <<>>],
          [NoBody EXCEPT !.name = "n1", !.email = <<"c">>, !.password = ShortPw]}

CraftedSignups ==
    {[NoBody EXCEPT !.name = "n1", !.email = <<"c">>, !.password = LongPw,
                    !.id = i] : i \in IdSpace}
    \cup {[NoBody EXCEPT !.name = "n1", !.email = <<"c">>, !.password = LongPw,
                         !.id = i, !.following = <<i>>] : i \in IdSpace}
    \cup {[NoBody EXCEPT !.name = "n1", !.email = <<"c">>, !.password = LongPw,
                         !.following = <<1, 1>>],
          [NoBody EXCEPT !.name = "n1", !.email = <<"c">>, !.password = LongPw,
                         !.followers = <<1>>]}

SignupBodies == PlainSignups \cup CraftedSignups

\* !req.body.name || !req.body.email || !req.body.password
MissingRequired(b) == b.name = "" \/ b.email = <<>> \/ b.password = <<>>

\* The schema's validators at save(): password minLength 6 (name and email
\* are present once the controller's check has passed).
ValidationError(b) == Len(b.password) < MinPasswordLen

\* new mongoose.Types.ObjectId(): an id no document ever had.
FreshId == CHOOSE i \in IdSpace \ everIds : \A j \in IdSpace \ everIds : i <= j

\* new Author(req.body): the setters run, every schema path of the body is
\* taken, _id is generated when the body has none.
NewAuthor(b) ==
    [b EXCEPT !.email = EmailSetter(b.email),
              !.id = IF b.id = 0 THEN FreshId ELSE b.id]

\* pre('save'): a new document's password is modified, so it is hashed.
PreSave(b) ==
    [name |-> b.name, email |-> b.email, password |-> BcryptHash(b.password),
     following |-> b.following, followers |-> b.followers, v |-> 0]

\* The collection's unique indexes: _id and email.
DuplicateKey(b) ==
    \/ Exists(b.id)
    \/ \E i \in DOMAIN db : db[i].email = b.email

\* POST /auth/signup up to the insert: the required fields, the document,
\* its validation and the hashing of the password.
SignupStart(r) ==
    /\ CanStart(r)
    /\ \E b \in SignupBodies :
        /\ b.id = 0 => IdSpace \ everIds # {}
        /\ ops' = ops + 1
        /\ IF MissingRequired(b) \/ ValidationError(b)
             THEN /\ Respond(r, "signup", NoAuth, 0, NoParam, b, 400, 0)
                  /\ UNCHANGED everIds
             ELSE /\ req' = [req EXCEPT ![r] =
                               [IdleReq EXCEPT !.kind = "signup", !.pc = "insert",
                                               !.body = NewAuthor(b),
                                               !.raw = b.email]]
                  /\ everIds' = everIds \cup {NewAuthor(b).id}
        /\ UNCHANGED <<db, issued, deleted>>

\* The insert of author.save(), then generateAuthToken() and the 201 answer;
\* a duplicate key is the 400 answer.
SignupInsert(r) ==
    /\ req[r].kind = "signup" /\ req[r].pc = "insert"
    /\ NoAnswerPending
    /\ LET b == req[r].body IN
       IF DuplicateKey(b)
         THEN /\ Finish(r, 400, 0)
              /\ UNCHANGED <<db, issued, deleted>>
         ELSE /\ db' = [i \in DOMAIN db \cup {b.id} |->
                          IF i = b.id THEN PreSave(b) ELSE db[i]]
              /\ issued' = issued \cup {GenerateAuthToken(b.id).sub}
              /\ req' = [req EXCEPT ![r] =
                           [IdleReq EXCEPT !.kind = "signup", !.pc = "done",
                                           !.user = b.id, !.body = b,
                                           !.raw = req[r].raw,
                                           !.status = 201,
                                           !.res = Serialise({b.id}, db')]]
    /\ UNCHANGED <<ops, everIds, deleted>>

\* bcrypt.compare(plaintext, stored)
BcryptCompare(pw, stored) == stored.hashed /\ stored.text = pw

LoginBodies ==
    {[NoBody EXCEPT !.email = e, !.password = pw] :
        e \in {<<"a">>, <<"c">>}, pw \in {SeedPw, LongPw}}

\* Author.findOne({ email }): the filter is cast with the schema's setters.
FindByEmail(e) == {i \in DOMAIN db : db[i].email = EmailSetter(e)}

\* POST /auth/login
LoginAuthor(r) ==
    /\ CanStart(r)
    /\ \E b \in LoginBodies :
        /\ ops' = ops + 1
        /\ LET found == FindByEmail(b.email) IN
           IF \E i \in found : BcryptCompare(b.password, db[i].password)
             THEN LET a == CHOOSE j \in found : TRUE IN
                  /\ RespondAuthors(r, "login", NoAuth, a, NoParam, b, 200,
                                    Serialise({a}, db))
                  /\ issued' = issued \cup {GenerateAuthToken(a).sub}
             ELSE /\ Respond(r, "login", NoAuth, 0, NoParam, b, 400, 0)
                  /\ UNCHANGED issued
        /\ UNCHANGED <<db, everIds, deleted>>

\* ------------------------------------------------------------------- reset

\* The client has read the answer; the slot is free again.
Reset(r) ==
    /\ req[r].pc = "done"
    /\ req' = [req EXCEPT ![r] = IdleReq]
    /\ UNCHANGED <<db, ops, everIds, issued, deleted>>

Step(r) ==
    \/ GetProfile(r)
    \/ IndexAuthors(r)
    \/ ShowAuthor(r)
    \/ FollowStart(r)
    \/ FollowFindTarget(r)
    \/ FollowSaveUser(r)
    \/ FollowFindTarget2(r)
    \/ FollowSaveTarget(r)
    \/ UnfollowStart(r)
    \/ UnfollowFindTarget(r)
    \/ UnfollowSaveUser(r)
    \/ UnfollowFindTarget2(r)
    \/ UnfollowSaveTarget(r)
    \/ UpdateStart(r)
    \/ UpdateApply(r)
    \/ DeleteStart(r)
    \/ DeleteApply(r)
    \/ SignupStart(r)
    \/ SignupInsert(r)
    \/ LoginAuthor(r)
    \/ Reset(r)

\* Requests arrive at any time and interleave at their awaits.
Next == \E r \in Reqs : Step(r)

Spec == Init /\ [][Next]_vars

\* One client that waits for each answer before its next request.
SeqNext == Step(1)

SeqSpec == Init /\ [][SeqNext]_vars

\* Clients that only send follow requests.
FollowNext ==
    \E r \in Reqs :
        \/ FollowStart(r)
        \/ FollowFindTarget(r)
        \/ FollowSaveUser(r)
        \/ FollowFindTarget2(r)
        \/ FollowSaveTarget(r)
        \/ Reset(r)

FollowSpec == Init /\ [][FollowNext]_vars

\* The follow relationships made before the clients of GraphSpec start:
\* 1 follows 2, alone or with 3 following 2 as well.
EarlierFollows == {{<<1, 2>>}, {<<1, 2>>, <<3, 2>>}}

\* The collection after account 3 signed up and the follows in e were
\* served one at a time: every follow pushed once on each side.
GraphDb(e) ==
    [i \in SeedIds \cup {3} |->
        LET doc == IF i \in SeedIds
                     THEN SeedDoc(i)
                     ELSE PreSave([NoBody EXCEPT !.name = "n1",
                                                 !.email = <<"c">>,
                                                 !.password = LongPw,
                                                 !.id = 3])
            ids == [j \in 1..3 |-> j]
            following == SelectSeq(ids, LAMBDA b : <<i, b>> \in e)
            followers == SelectSeq(ids, LAMBDA a : <<a, i>> \in e)
        IN [doc EXCEPT !.following = following, !.followers = followers,
                       !.v = Len(following) + Len(followers)]]

GraphInit ==
    /\ \E e \in EarlierFollows : db = GraphDb(e)
    /\ req = [r \in Reqs |-> IdleReq]
    /\ ops = 0
    /\ everIds = SeedIds \cup {3}
    /\ issued = SeedIds \cup {3}
    /\ deleted = {}

\* Clients that only send follow and unfollow requests.
GraphNext ==
    \E r \in Reqs :
        \/ FollowStart(r)
        \/ FollowFindTarget(r)
        \/ FollowSaveUser(r)
        \/ FollowFindTarget2(r)
        \/ FollowSaveTarget(r)
        \/ UnfollowStart(r)
        \/ UnfollowFindTarget(r)
        \/ UnfollowSaveUser(r)
        \/ UnfollowFindTarget2(r)
        \/ UnfollowSaveTarget(r)
        \/ Reset(r)

GraphSpec == GraphInit /\ [][GraphNext]_vars

\* ================================================================== claims

InSeq(x, sq) == \E i \in 1..Len(sq) : sq[i] = x

NoRepeat(sq) == \A i, j \in 1..Len(sq) : sq[i] = sq[j] => i = j

Running(r) == req[r].pc \notin {"idle", "done"}

Answered(r) == req[r].pc = "done"

GraphRequest(r) == req[r].kind \in {"follow", "unfollow"}

\* The account a request names in its path.
Target(r) == req[r].param.oid

ProtectedKinds == {"profile", "update", "delete", "follow", "unfollow"}

\* Equal ignoring letter case and surrounding blanks.
SameEmail(e1, e2) == LowerCase(Trim(e1)) = LowerCase(Trim(e2))

\* C1: whenever no follow or unfollow request is in progress, for all
\* accounts A and B, B is in A.following if and only if A is in B.followers.
C1_MirrorWhenQuiescent ==
    (\A r \in Reqs : GraphRequest(r) => ~Running(r))
        => \A a, b \in DOMAIN db :
               InSeq(b, db[a].following) <=> InSeq(a, db[b].followers)

\* C2: for distinct existing accounts A and B, a follow(A,B) answered 200
\* leaves B in A.following and A in B.followers; an unfollow(A,B) answered 200
\* leaves B out of A.following and A out of B.followers.  Stated on the answer
\* of a client that sends one request at a time.
C2_FollowSymmetry ==
    \A r \in Reqs :
        (/\ Answered(r) /\ GraphRequest(r) /\ req[r].status = 200
         /\ req[r].user # Target(r)
         /\ Exists(req[r].user) /\ Exists(Target(r)))
        => IF req[r].kind = "follow"
             THEN /\ InSeq(Target(r), db[req[r].user].following)
                  /\ InSeq(req[r].user, db[Target(r)].followers)
             ELSE /\ ~InSeq(Target(r), db[req[r].user].following)
                  /\ ~InSeq(req[r].user, db[Target(r)].followers)

\* C3: the stored password of every account is the hash of a plaintext,
\* never the plaintext.
C3_StoredPasswordHashed ==
    \A i \in DOMAIN db : db[i].password.hashed

\* C4: every step of an update or delete request of an authenticated account
\* X on an id Y other than X's answers 403 and leaves the collection as it
\* was, whether or not Y exists.
C4_OwnerOnly ==
    [][\A r \in Reqs :
          (/\ req'[r] # req[r]
           /\ req'[r].kind \in {"update", "delete"}
           /\ req'[r].user # 0
           /\ req'[r].user # req'[r].param.oid)
          => (/\ req'[r].pc = "done"
              /\ req'[r].status = 403
              /\ db' = db)]_vars

\* C4's case: X's update of the existing account Y, carrying a new
\* password, was answered 403.
C4_Witness ==
    \E r \in Reqs :
        /\ Answered(r) /\ req[r].status = 403
        /\ req[r].kind = "update"
        /\ req[r].user # 0
        /\ req[r].user # Target(r)
        /\ Exists(Target(r))
        /\ req[r].body.password = LongPw

\* C5: a protected request that arrives with no token, with a token that
\* fails verification, or with a verified token of an account that does not
\* exist or whose delete has completed, is answered 401 and changes nothing.
C5_DeadIdentityRejected ==
    [][\A r \in Reqs :
          (/\ req[r].pc = "idle" /\ req'[r].pc # "idle"
           /\ req'[r].kind \in ProtectedKinds
           /\ \/ req'[r].tok = NoToken
              \/ ~JwtVerify(req'[r].tok)
              \/ req'[r].tok.sub \notin DOMAIN db
              \/ req'[r].tok.sub \in deleted)
          => (/\ req'[r].pc = "done"
              /\ req'[r].status = 401
              /\ db' = db)]_vars

\* C6: every account's followers list and following list hold each
\* identifier at most once.
C6_NoDuplicates ==
    \A i \in DOMAIN db : NoRepeat(db[i].following) /\ NoRepeat(db[i].followers)

\* C7: no account is in its own followers or following list.
C7_NoSelfRelationship ==
    \A i \in DOMAIN db :
        ~InSeq(i, db[i].following) /\ ~InSeq(i, db[i].followers)

\* C8: a follow or unfollow request of an authenticated account on its own
\* id is answered 400 at once, so it never reaches the database.
C8_SelfRejected ==
    \A r \in Reqs :
        (GraphRequest(r) /\ req[r].user # 0 /\ Target(r) = req[r].user)
        => (Answered(r) /\ req[r].status = 400)

\* C9: for distinct existing accounts A and B and a client that sends one
\* request at a time: a follow(A,B) sent when A already follows B is answered
\* 200 at once with the size of A.following and writes nothing; an
\* unfollow(A,B) sent when A does not follow B writes nothing and is
\* answered 200.
C9_Idempotence ==
    [][\A r \in Reqs :
          LET u == req[r].user
              t == Target(r) IN
          (/\ GraphRequest(r) /\ Running(r)
           /\ u # t /\ Exists(u) /\ Exists(t))
          => /\ (/\ req[r].kind = "follow"
                 /\ req[r].pc = "findTarget"
                 /\ InSeq(t, db[u].following))
                => (/\ db' = db
                    /\ req'[r].pc = "done"
                    /\ req'[r].status = 200
                    /\ req'[r].count = Len(db[u].following))
             /\ (/\ req[r].kind = "unfollow"
                 /\ ~req[r].dirty
                 /\ ~InSeq(t, db[u].following))
                => (/\ db' = db
                    /\ (req'[r].pc = "done" => req'[r].status = 200))]_vars

\* C10: no two accounts have emails equal ignoring case and surrounding
\* blanks, and a signup whose email equals an existing account's in that
\* sense is answered 400 and inserts nothing.
C10_UniqueEmails ==
    /\ [](\A i, j \in DOMAIN db :
             SameEmail(db[i].email, db[j].email) => i = j)
    /\ [][\A r \in Reqs :
             (/\ req[r].kind = "signup" /\ req[r].pc = "insert"
              /\ req'[r].pc = "done"
              /\ \E i \in DOMAIN db : SameEmail(db[i].email, req[r].raw))
             => (req'[r].status = 400 /\ db' = db)]_vars

\* C10's case: a signup whose email differs from an existing account's only
\* in case and blanks was answered 400.
C10_Witness ==
    \E r \in Reqs :
        /\ Answered(r) /\ req[r].kind = "signup" /\ req[r].status = 400
        /\ req[r].raw = <<"A", " ">>
        /\ \E i \in DOMAIN db :
              db[i].email # req[r].raw /\ SameEmail(db[i].email, req[r].raw)

\* C11: a request to a protected route that carries a token in the
\* Authorization header and another in the token query parameter is
\* authenticated, or rejected, as the header token alone would be.
C11_HeaderPreferred ==
    \A r \in Reqs :
        (/\ Answered(r) /\ req[r].kind \in ProtectedKinds
         /\ req[r].hdr # NoToken /\ req[r].qry # NoToken)
        => /\ (req[r].status = 401) <=> (Authenticate(req[r].hdr) = 0)
           /\ req[r].status # 401 => req[r].user = Authenticate(req[r].hdr)

\* C12: while a follow request of A on another account B is executing, the
\* collection never holds B in A.following without A in B.followers, nor the
\* reverse: the two lists change in one step.
C12_FollowAtomic ==
    \A r \in Reqs :
        LET u == req[r].user
            t == Target(r) IN
        (/\ req[r].kind = "follow" /\ Running(r)
         /\ u # t /\ Exists(u) /\ Exists(t))
        => (InSeq(t, db[u].following) <=> InSeq(u, db[t].followers))

C14_MissingTarget ==
    [][\A r \in Reqs :
          LET u == req[r].user
              t == Target(r) IN
          (/\ GraphRequest(r) /\ Running(r) /\ req'[r] # req[r]
           /\ u # t /\ Exists(u))
          => /\ ~Exists(t) => (/\ req'[r].pc = "done"
                               /\ req'[r].status = 404
                               /\ db' = db)
             /\ \A x \in IdSpace :
                   (/\ u \in DOMAIN db'
                    /\ InSeq(x, db'[u].following)
                    /\ ~InSeq(x, db[u].following))
                   => x \in DOMAIN db']_vars

\* C15: the followingCount of a follow or unfollow request answered 200 is
\* the length of the actor's stored following list at that moment, whatever
\* other requests of the actor are in flight.
C15_ReturnedCountIsStored ==
    [][\A r \in Reqs :
          (/\ GraphRequest(r) /\ Running(r)
           /\ req'[r].pc = "done" /\ req'[r].status = 200
           /\ req[r].user \in DOMAIN db')
          => req'[r].count = Len(db'[req[r].user].following)]_vars

\* C16: when the owner's delete of X is answered 204, no remaining account
\* holds X in its followers list or in its following list.
C16_DeleteCleansGraph ==
    [][\A r \in Reqs :
          (/\ req[r].kind = "delete" /\ req[r].pc = "apply"
           /\ req'[r].pc = "done" /\ req'[r].status = 204)
          => \A i \in DOMAIN db' :
                /\ ~InSeq(Target(r), db'[i].followers)
                /\ ~InSeq(Target(r), db'[i].following)]_vars

\* C17: no account representation in any answer (signup, login, own profile,
\* list, by id, update) has a password field, whatever the stored password.
C17_PasswordNeverReturned ==
    \A r \in Reqs :
        Answered(r) => \A o \in req[r].res : "password" \notin DOMAIN o

\* C17's case: the list of all accounts was answered while one of them
\* stores its password as it was sent.
C17_Witness ==
    \E r \in Reqs :
        /\ Answered(r) /\ req[r].kind = "index" /\ req[r].status = 200
        /\ \E o \in req[r].res :
              Exists(o.id) /\ ~db[o.id].password.hashed
        /\ \E o1, o2 \in req[r].res : o1 # o2

\* A token that issue made with the configured secret.
Genuine(tok) == \E i \in IdSpace : tok = GenerateAuthToken(i)

\* C18: a protected request whose token was issued for an existing account
\* is authenticated as exactly that account; one whose token was not made
\* by issue with the configured secret (forged, or changed after signing)
\* is answered 401 as nobody.
C18_TokenRoundTrip ==
    [][\A r \in Reqs :
          (/\ req[r].pc = "idle" /\ req'[r].pc # "idle"
           /\ req'[r].kind \in ProtectedKinds
           /\ req'[r].tok # NoToken)
          => /\ \A i \in DOMAIN db :
                   req'[r].tok = GenerateAuthToken(i)
                   => (req'[r].user = i /\ req'[r].status # 401)
             /\ ~Genuine(req'[r].tok)
                => (/\ req'[r].pc = "done" /\ req'[r].status = 401
                    /\ req'[r].user = 0 /\ db' = db)]_vars

\* C18's case: a request carrying the token issued for an existing account
\* runs as that account while a request carrying the token of account 1
\* rewritten to name the existing account 2 has been answered 401.
C18_Witness ==
    \E r, q \in Reqs :
        /\ Running(r) /\ Exists(req[r].user)
        /\ req[r].tok = GenerateAuthToken(req[r].user)
        /\ Answered(q) /\ req[q].status = 401
        /\ req[q].tok = TamperedToken /\ Exists(TamperedToken.sub)

\* C19: in every state that follow requests alone can reach, stopped at any
\* point, A in B.followers implies B in A.following: a follow writes
\* A.following first, so a partial follow leaves at most B in A.following
\* without A in B.followers.
C19_FollowWriteOrder ==
    \A a, b \in DOMAIN db :
        InSeq(a, db[b].followers) => InSeq(b, db[a].following)

\* C19's case: a follow of A on B stopped between its two saves, B in
\* A.following and A not yet in B.followers.
C19_Witness ==
    \E r \in Reqs :
        LET u == req[r].user
            t == Target(r) IN
        /\ req[r].kind = "follow" /\ req[r].pc \in {"findTarget2", "saveTarget"}
        /\ u # t /\ Exists(u) /\ Exists(t)
        /\ InSeq(t, db[u].following)
        /\ ~InSeq(u, db[t].followers)

C21_PairIndependence ==
    [][\A r \in Reqs :
          (/\ GraphRequest(r) /\ Running(r) /\ req'[r] # req[r])
          => \A x, y \in DOMAIN db \cap DOMAIN db' :
                (x # req[r].user \/ y # Target(r))
                => /\ InSeq(y, db'[x].following) <=> InSeq(y, db[x].following)
                   /\ InSeq(x, db'[y].followers) <=> InSeq(x, db[y].followers)]_vars

\* C21's case: while a follow of A on C, which has pushed C once into the
\* stored A.following, is still running, an unfollow of A on B that worked
\* from the copy loaded before that push had its save refused; B and C are
\* both in A.following.
C21_Witness ==
    \E r, q \in Reqs :
        LET u == req[r].user
            t == Target(r)
            c == Target(q) IN
        /\ Answered(r) /\ req[r].kind = "unfollow" /\ req[r].status = 400
        /\ req[q].kind = "follow" /\ req[q].pc \in {"findTarget2", "saveTarget"}
        /\ req[q].user = u /\ c # t /\ c # u /\ t # u
        /\ Exists(u) /\ Exists(t) /\ Exists(c)
        /\ InSeq(t, db[u].following)
        /\ Cardinality({i \in 1..Len(db[u].following) :
                           db[u].following[i] = c}) = 1

\* C22: the account a signup answered 201 has inserted has empty followers
\* and following lists and an identifier no account had before, whatever the
\* body carried; and no step of a request other than follow and unfollow
\* changes the followers or following list of an account.
C22_FreshOutsideGraph ==
    [][\A r \in Reqs :
          /\ (/\ req[r].kind = "signup" /\ req[r].pc = "insert"
              /\ req'[r].pc = "done" /\ req'[r].status = 201)
             => LET new == req'[r].user IN
                /\ new \in DOMAIN db' \ DOMAIN db
                /\ new \notin deleted
                /\ db'[new].following = <<>>
                /\ db'[new].followers = <<>>
          /\ (req'[r] # req[r] /\ ~GraphRequest(r))
             => \A i \in DOMAIN db \cap DOMAIN db' :
                   /\ db'[i].following = db[i].following
                   /\ db'[i].followers = db[i].followers]_vars

\* C23: a login with an account's email is answered 200 exactly when its
\* password is the one the account was last given (at creation, or by an
\* owner's update carrying at least 6 characters; a shorter one changes
\* nothing), and 400 otherwise.
C23_PasswordChangeLogsIn ==
    \A r \in Reqs :
        (Answered(r) /\ req[r].kind = "login")
        => \A i \in FindByEmail(req[r].body.email) :
              (req[r].status = 200)
                  <=> (req[r].body.password = db[i].password.text)

====
